---- MODULE Spec2Model ----
(***************************************************************************)
(* Model of the gRPC / gRPC-Gateway front door of grpc_greeter_helloworld: *)
(* grpcHandlerFunc (the protocol multiplexer), the unary interceptor chain *)
(* (opentracing server interceptor, ServerValidationUnaryInterceptor), the *)
(* Greeter method bodies and the gateway's loopback client hop.            *)
(*                                                                         *)
(* Strings the code inspects are sequences of tokens, so that              *)
(* strings.Contains and the + concatenation are computed, not assumed.     *)
(***************************************************************************)
EXTENDS Integers, Sequences, FiniteSets, TLC

(***************************************************************************)
(* Bounds of the exploration.                                              *)
(***************************************************************************)
NumReqs == 2        \* external requests that may be in flight together
MaxHops == 3        \* inbound-request slots per external request (re-entry)
MaxCTLen == 3       \* tokens in a Content-Type header value

Reqs == 1..NumReqs
InbIds == 1..(MaxHops * NumReqs)

\* The inbound request the gateway's loopback client creates for inbound q.
Loop(q) == q + NumReqs

\* Re-entry depth of an inbound request: 1 for an external request.
Depth(q) == ((q - 1) \div NumReqs) + 1

(***************************************************************************)
(* Strings.                                                                *)
(***************************************************************************)
CTAlphabet == {"application/", "grpc", "+proto", "text"}

RECURSIVE SeqsUpTo(_, _)
SeqsUpTo(S, n) ==
    IF n = 0 THEN {<<>>}
    ELSE LET shorter == SeqsUpTo(S, n - 1)
         IN  shorter \cup {Append(s, x) : s \in {t \in shorter : Len(t) = n - 1}, x \in S}

ContentTypes == SeqsUpTo(CTAlphabet, MaxCTLen)

\* "application/grpc", the argument of strings.Contains in grpcHandlerFunc.
GrpcMarker == <<"application/", "grpc">>

\* strings.Index: the first position of substr in s at or after i, or -1.
RECURSIVE IndexFrom(_, _, _)
IndexFrom(s, substr, i) ==
    IF i + Len(substr) - 1 > Len(s) THEN -1
    ELSE IF SubSeq(s, i, i + Len(substr) - 1) = substr THEN i
    ELSE IndexFrom(s, substr, i + 1)

\* strings.Contains(s, substr)
Contains(s, substr) == IndexFrom(s, substr, 1) >= 0

\* The literal " world" SayHello appends.
WorldSuffix == <<" ", "world">>

Names == {<<>>, <<"Ada">>}

(***************************************************************************)
(* Request messages.  HelloRequest and UserReq are generated with          *)
(* protoc-gen-validate rules; emptypb.Empty has no ValidateAll method.     *)
(***************************************************************************)
HelloRequest(n, v) == [type |-> "HelloRequest", name |-> n, id |-> 0, valid |-> v]
UserReq(i, v) == [type |-> "UserReq", name |-> <<>>, id |-> i, valid |-> v]
Empty == [type |-> "Empty", name |-> <<>>, id |-> 0, valid |-> TRUE]

UserIds == {42}

\* The request message each RPC method decodes.
MessagesOf(m) ==
    CASE m = "SayHello" -> {HelloRequest(n, v) : n \in Names, v \in BOOLEAN}
      [] m = "GetUser"  -> {UserReq(i, v) : i \in UserIds, v \in BOOLEAN}
      [] OTHER          -> {Empty}

\* Greeter_ServiceDesc.Methods
Methods == {"SayHello", "Logout", "GetUser"}

\* A path that names no registered method / matches no gateway route.
NoRoute == "NoRoute"

(***************************************************************************)
(* Trace carriers.                                                         *)
(***************************************************************************)
NilCtx == [traceId |-> 0, spanId |-> 0]

\* The uber-trace-id header of an inbound request: absent, unparsable or a
\* parent span context.
HdrAbsent == [st |-> "absent", traceId |-> 0, spanId |-> 0]
HdrCorrupt == [st |-> "corrupt", traceId |-> 0, spanId |-> 0]
HdrCtx(t, s) == [st |-> "ok", traceId |-> t, spanId |-> s]

ExternalParents == {HdrCtx(200, 201)}
TraceHeaders == {HdrAbsent, HdrCorrupt} \cup ExternalParents

(***************************************************************************)
(* Inbound requests.                                                       *)
(***************************************************************************)
NoReq == [protoMajor |-> 0, contentType |-> <<>>, traceHdr |-> HdrAbsent,
          method |-> NoRoute, msg |-> Empty]

Request(pm, ct, th, m, msg) ==
    [protoMajor |-> pm, contentType |-> ct, traceHdr |-> th, method |-> m, msg |-> msg]

JsonCT == <<"application/", "text">>

\* Missing, gRPC, gRPC with a subtype, and a non-gRPC content type.
BasicContentTypes == {<<>>, GrpcMarker, GrpcMarker \o <<"+proto">>, JsonCT}

\* The calls sent with every content type.
ProbeCalls == {<<"SayHello", HelloRequest(<<"Ada">>, TRUE)>>, <<"Logout", Empty>>}

\* The requests explored one at a time: every content type with the probe
\* calls, and every call of every method with the basic content types; both
\* over every protocol version and trace header.
AllRequests ==
    {Request(pm, ct, th, c[1], c[2]) :
        pm \in {1, 2}, ct \in ContentTypes, th \in TraceHeaders, c \in ProbeCalls}
    \cup
    UNION {{Request(pm, ct, th, m, msg) :
                pm \in {1, 2}, ct \in BasicContentTypes, th \in TraceHeaders,
                msg \in MessagesOf(m)} : m \in Methods \cup {NoRoute}}

\* The requests explored when several are in flight together.
ConcRequests ==
    { Request(2, GrpcMarker, HdrCorrupt, "SayHello", HelloRequest(<<"Ada">>, FALSE)),
      Request(2, GrpcMarker, HdrAbsent, "GetUser", UserReq(42, TRUE)),
      Request(1, JsonCT, HdrCtx(200, 201), "SayHello", HelloRequest(<<"Ada">>, TRUE)),
      Request(2, JsonCT, HdrAbsent, "Logout", Empty) }

(***************************************************************************)
(* Errors and status codes.                                                *)
(***************************************************************************)
NoErr == [kind |-> "nil", code |-> "OK"]

\* The error a generated ValidateAll returns: a plain Go error value, not a
\* gRPC status.
ValidationErr == [kind |-> "validation", code |-> ""]

\* status.Errorf(c, ...)
StatusErr(c) == [kind |-> "status", code |-> c]

\* status.Code(err): the code of a status error, Unknown for any other error.
Code(err) ==
    IF err = NoErr THEN "OK"
    ELSE IF err.kind = "status" THEN err.code
    ELSE "Unknown"

\* runtime.HTTPStatusFromCode, the gateway's fixed mapping.
HTTPStatusFromCode(c) ==
    CASE c = "OK"              -> 200
      [] c = "InvalidArgument" -> 400
      [] c = "NotFound"        -> 404
      [] c = "Unimplemented"   -> 501
      [] OTHER                 -> 500

(***************************************************************************)
(* Response bodies.                                                        *)
(***************************************************************************)
NilBody == [type |-> "nil", message |-> <<>>]
HelloReply(m) == [type |-> "HelloReply", message |-> m]
EmptyBody == [type |-> "Empty", message |-> <<>>]

NoResult == [resp |-> NilBody, err |-> NoErr]

\* status: 0 until the response is written; traceHdr: the Uber-Trace-Id
\* response header, <<>> while unset.
NoResponse == [status |-> 0, grpcCode |-> "", body |-> NilBody, traceHdr |-> <<>>]

(***************************************************************************)
(* Spans.                                                                  *)
(***************************************************************************)
SpanKinds == <<"ServeHTTP", "client", "server">>

NoSpan == <<0, "none">>

KindIndex(k) == CHOOSE i \in 1..Len(SpanKinds) : SpanKinds[i] = k

\* The identifier the tracer draws for a span: distinct for distinct spans.
SpanIdOf(key) == (key[1] - 1) * Len(SpanKinds) + KindIndex(key[2])

HexDigits == <<"0", "1", "2", "3", "4", "5", "6", "7",
               "8", "9", "a", "b", "c", "d", "e", "f">>

\* fmt.Sprint(trace.TraceID()): the trace id in hexadecimal.
RECURSIVE ToHex(_)
ToHex(n) ==
    IF n < 16 THEN <<HexDigits[n + 1]>>
    ELSE Append(ToHex(n \div 16), HexDigits[(n % 16) + 1])

VARIABLES
    pc,            \* position of each inbound request's task
    req,           \* the inbound request, immutable once received
    route,         \* the branch grpcHandlerFunc took: "none", "grpc", "gateway"
    served,        \* calls of grpcServer.ServeHTTP / otherHandler.ServeHTTP
    ctxSpan,       \* the span attached to the request's context
    deferred,      \* whether grpcHandlerFunc registered defer serverSpan.Finish()
    spans,         \* every span the tracer started
    calls,         \* invocations of ValidateAll and of the method body
    log,           \* the stages of the interceptor chain, in execution order
    result,        \* (response, error) returned by the interceptor chain
    response,      \* what is written back to the caller
    cancelled,     \* whether the request's call context has been cancelled
    handlerArgs,   \* the context and request the method body was called with
    main           \* the process: position of main(), what it has set up

vars == <<pc, req, route, served, ctxSpan, deferred, spans, calls, log, result, response,
          cancelled, handlerArgs, main>>

\* The method body has not been called.
NoCall == [called |-> FALSE, ctx |-> NoSpan, req |-> Empty]

\* main() before its first statement.
MainStart ==
    [pc |-> "load", config |-> 0, logger |-> 0, tracer |-> 0,
     listening |-> FALSE, registered |-> FALSE, failed |-> "none",
     defers |-> <<>>, synced |-> 0, closed |-> 0]

Init ==
    /\ pc = [q \in InbIds |-> "idle"]
    /\ req = [q \in InbIds |-> NoReq]
    /\ route = [q \in InbIds |-> "none"]
    /\ served = [q \in InbIds |-> [grpc |-> 0, other |-> 0]]
    /\ ctxSpan = [q \in InbIds |-> NoSpan]
    /\ deferred = [q \in InbIds |-> FALSE]
    /\ spans = <<>>
    /\ calls = [q \in InbIds |-> [validate |-> 0, handler |-> 0]]
    /\ log = [q \in InbIds |-> <<>>]
    /\ result = [q \in InbIds |-> NoResult]
    /\ response = [q \in InbIds |-> NoResponse]
    /\ cancelled = [q \in InbIds |-> FALSE]
    /\ handlerArgs = [q \in InbIds |-> NoCall]
    /\ main = MainStart


(***************************************************************************)
(* The process: main() from its first statement to the accept loop.        *)
(***************************************************************************)
\* The deferred calls of main() run, last registered first.
RunDeferred(m) ==
    [m EXCEPT !.synced = @ + Cardinality({i \in 1..Len(m.defers) : m.defers[i] = "zaplog.Sync"}),
              !.closed = @ + Cardinality({i \in 1..Len(m.defers) : m.defers[i] = "closer.Close"}),
              !.defers = <<>>]

\* panic(err) in main(): the deferred calls run, then the process dies.
Panic(m) == [RunDeferred(m) EXCEPT !.pc = "exited"]

\* Mutant: the failure is only printed and main() goes on.
Fatalln_Returns(m) == m

\* log.Fatalln: prints and calls os.Exit(1); deferred calls do not run.
Fatalln(m) == [m EXCEPT !.pc = "exited"]

\* Mutant: the tracer is created but never installed.
SetGlobalTracer_Never(m) == m

\* opentracing.SetGlobalTracer(tracer).
SetGlobalTracer(m) == [m EXCEPT !.tracer = @ + 1]

\* The accept loop is running: requests are accepted and their tasks run.
Serving == main.pc = "serving"

\* config.Load, then zaplog.Init and defer zaplog.Sync().
LoadConfig ==
    /\ main.pc = "load"
    /\ \E ok \in BOOLEAN :
          main' = IF ok
                  THEN [main EXCEPT !.config = @ + 1, !.logger = @ + 1,
                                    !.defers = Append(@, "zaplog.Sync"), !.pc = "tracer"]
                  ELSE Panic([main EXCEPT !.failed = "config"])
    /\ UNCHANGED <<pc, req, route, served, ctxSpan, deferred, spans, calls, log, result,
                   response, cancelled, handlerArgs>>

\* traceCfg.NewTracer, defer closer.Close(), SetGlobalTracer.
NewTracer ==
    /\ main.pc = "tracer"
    /\ \E ok \in BOOLEAN :
          main' = IF ok
                  THEN SetGlobalTracer([main EXCEPT !.defers = Append(@, "closer.Close"),
                                                    !.pc = "listen"])
                  ELSE Panic([main EXCEPT !.failed = "tracer"])
    /\ UNCHANGED <<pc, req, route, served, ctxSpan, deferred, spans, calls, log, result,
                   response, cancelled, handlerArgs>>

\* net.Listen("tcp", ":8091").
Listen ==
    /\ main.pc = "listen"
    /\ \E ok \in BOOLEAN :
          main' = IF ok
                  THEN [main EXCEPT !.listening = TRUE, !.pc = "register"]
                  ELSE Fatalln([main EXCEPT !.failed = "listen", !.pc = "register"])
    /\ UNCHANGED <<pc, req, route, served, ctxSpan, deferred, spans, calls, log, result,
                   response, cancelled, handlerArgs>>

\* grpc.NewServer, RegisterGreeterServer, runtime.NewServeMux and
\* RegisterGreeterHandlerFromEndpoint.
RegisterGateway ==
    /\ main.pc = "register"
    /\ \E ok \in BOOLEAN :
          main' = IF ok
                  THEN [main EXCEPT !.registered = TRUE, !.pc = "serve"]
                  ELSE Fatalln([main EXCEPT !.failed = "register", !.pc = "serve"])
    /\ UNCHANGED <<pc, req, route, served, ctxSpan, deferred, spans, calls, log, result,
                   response, cancelled, handlerArgs>>

\* gwServer.Serve(lis) enters its accept loop.
Serve ==
    /\ main.pc = "serve"
    /\ main' = [main EXCEPT !.pc = "serving"]
    /\ UNCHANGED <<pc, req, route, served, ctxSpan, deferred, spans, calls, log, result,
                   response, cancelled, handlerArgs>>

\* gwServer.Serve(lis) returns its error, which goes to log.Fatalln.
ServeReturns ==
    /\ Serving
    /\ main' = Fatalln([main EXCEPT !.failed = "serve", !.pc = "return"])
    /\ UNCHANGED <<pc, req, route, served, ctxSpan, deferred, spans, calls, log, result,
                   response, cancelled, handlerArgs>>


(***************************************************************************)
(* The tracer.                                                             *)
(***************************************************************************)
\* tracer.Extract(HTTPHeaders, carrier): the parent context and the error.
Extract(hdr) ==
    CASE hdr.st = "ok"     -> [ctx |-> [traceId |-> hdr.traceId, spanId |-> hdr.spanId],
                               err |-> "nil"]
      [] hdr.st = "absent" -> [ctx |-> NilCtx, err |-> "ErrSpanContextNotFound"]
      [] OTHER             -> [ctx |-> NilCtx, err |-> "ErrSpanContextCorrupted"]

\* Mutant: the parent context is dropped, every span is a root.
NewSpan_Root(key, parent) ==
    [id |-> SpanIdOf(key), traceId |-> SpanIdOf(key), parentId |-> 0,
     started |-> 1, finished |-> 0, failed |-> FALSE]

\* tracer.StartSpan(name, ext.RPCServerOption(parent)): a child of parent when
\* there is one, the root of a new trace otherwise.
NewSpan(key, parent) ==
    [id |-> SpanIdOf(key),
     traceId |-> IF parent = NilCtx THEN SpanIdOf(key) ELSE parent.traceId,
     parentId |-> parent.spanId,
     started |-> 1, finished |-> 0, failed |-> FALSE]

StartSpan(sp, key, parent) ==
    IF key \in DOMAIN sp THEN [sp EXCEPT ![key].started = @ + 1]
    ELSE (key :> NewSpan(key, parent)) @@ sp

\* Mutant: the span is never finished.
FinishSpan_Leak(sp, key, failed) == sp

\* Mutant: Finish is called twice.
FinishSpan_Twice(sp, key, failed) ==
    [sp EXCEPT ![key].finished = @ + 2, ![key].failed = @ \/ failed]

\* Mutant: finishing a span finishes every span that is still open.
FinishSpan_Shared(sp, key, failed) ==
    [k \in DOMAIN sp |->
        IF k = key \/ sp[k].finished = 0
        THEN [sp[k] EXCEPT !.finished = @ + 1, !.failed = @ \/ failed]
        ELSE sp[k]]

\* ext.Error.Set(span, true) when the call failed, then span.Finish().
FinishSpan(sp, key, failed) ==
    [sp EXCEPT ![key].finished = @ + 1, ![key].failed = @ \/ failed]

\* span.Context()
ContextOf(sp, key) ==
    IF key \in DOMAIN sp THEN [traceId |-> sp[key].traceId, spanId |-> sp[key].id]
    ELSE NilCtx

(***************************************************************************)
(* The protocol multiplexer, grpcHandlerFunc.                              *)
(***************************************************************************)
\* Mutant: the content type must be "application/grpc" exactly.
IsGrpcCall_ExactType(r) == r.protoMajor = 2 /\ r.contentType = GrpcMarker

\* Mutant: the protocol version is not looked at.
IsGrpcCall_AnyProto(r) == Contains(r.contentType, GrpcMarker)

\* r.ProtoMajor == 2 && strings.Contains(r.Header.Get("Content-Type"), "application/grpc")
IsGrpcCall(r) == r.protoMajor = 2 /\ Contains(r.contentType, GrpcMarker)

\* Mutant: a gateway request is handed to both backend handlers.
Dispatch_Fork(s, grpc) ==
    IF grpc THEN [s EXCEPT !.grpc = @ + 1]
    ELSE [grpc |-> s.grpc + 1, other |-> s.other + 1]

\* The backend handler grpcHandlerFunc calls for the branch taken.
Dispatch(s, grpc) ==
    IF grpc THEN [s EXCEPT !.grpc = @ + 1] ELSE [s EXCEPT !.other = @ + 1]

\* Mutant: the span is started whatever Extract returned.
StartsServeHTTPSpan_Always(err) == TRUE

\* err == nil || err == opentracing.ErrSpanContextNotFound
StartsServeHTTPSpan(err) == err = "nil" \/ err = "ErrSpanContextNotFound"

\* Mutant: the header carries the span id instead of the trace id.
TraceIdHeader_SpanId(span) == ToHex(span.id)

\* w.Header().Set(jaeger.TraceContextHeaderName, fmt.Sprint(trace.TraceID()))
TraceIdHeader(span) == ToHex(span.traceId)

\* A request arrives on the shared listener and takes the lowest free slot.
\* Any request is explored alone; requests are explored together when all of
\* them are among ConcRequests.
Arrive(q) ==
    /\ Serving
    /\ q \in Reqs
    /\ pc[q] = "idle"
    /\ \A p \in Reqs : p < q => pc[p] # "idle"
    /\ LET others == {p \in Reqs \ {q} : pc[p] # "idle"}
           pool == IF others = {} THEN AllRequests
                   ELSE IF \A p \in others : req[p] \in ConcRequests THEN ConcRequests
                   ELSE {}
       IN  \E r \in pool : req' = [req EXCEPT ![q] = r]
    /\ pc' = [pc EXCEPT ![q] = "recv"]
    /\ UNCHANGED <<route, served, ctxSpan, deferred, spans, calls, log, result, response,
                   cancelled, handlerArgs, main>>

\* The handler function up to and including the call of the backend handler.
grpcHandlerFunc(q) ==
    /\ Serving
    /\ pc[q] = "recv"
    /\ LET grpc == IsGrpcCall(req[q])
           ext  == Extract(req[q].traceHdr)
           key  == <<q, "ServeHTTP">>
           traced == ~grpc /\ StartsServeHTTPSpan(ext.err)
           started == StartSpan(spans, key, ext.ctx)
       IN  /\ route' = [route EXCEPT ![q] = IF grpc THEN "grpc" ELSE "gateway"]
           /\ served' = [served EXCEPT ![q] = Dispatch(@, grpc)]
           /\ spans' = IF traced THEN started ELSE spans
           /\ ctxSpan' = [ctxSpan EXCEPT ![q] = IF traced THEN key ELSE @]
           /\ response' = [response EXCEPT ![q].traceHdr =
                              IF traced THEN TraceIdHeader(started[key]) ELSE @]
           /\ deferred' = [deferred EXCEPT ![q] = traced]
           /\ pc' = [pc EXCEPT ![q] = IF grpc THEN "grpc_serve" ELSE "gw_serve"]
    /\ UNCHANGED <<req, calls, log, result, cancelled, handlerArgs, main>>

\* The handler function returns, or unwinds after a panic of the backend
\* handler: either way the deferred serverSpan.Finish() runs.
MuxReturn(q) ==
    /\ Serving
    /\ pc[q] \in {"mux_ret", "mux_unwind"}
    /\ spans' = IF deferred[q] THEN FinishSpan(spans, <<q, "ServeHTTP">>, FALSE) ELSE spans
    /\ pc' = [pc EXCEPT ![q] = IF @ = "mux_ret" THEN "done" ELSE "panicked"]
    /\ UNCHANGED <<req, route, served, ctxSpan, deferred, calls, log, result, response,
                   cancelled, handlerArgs, main>>


(***************************************************************************)
(* The gRPC server: transport checks, the interceptor chain                *)
(* ChainUnaryInterceptor(opentracing server interceptor,                   *)
(* ServerValidationUnaryInterceptor) and the Greeter method bodies.        *)
(***************************************************************************)
\* The content types grpcServer.ServeHTTP accepts: "application/grpc",
\* alone or followed by "+" or ";".
ValidContentType(ct) ==
    /\ Len(ct) >= Len(GrpcMarker)
    /\ SubSeq(ct, 1, Len(GrpcMarker)) = GrpcMarker
    /\ Len(ct) > Len(GrpcMarker) => ct[Len(GrpcMarker) + 1] = "+proto"

\* req.(Validator): does the message have a ValidateAll method.
HasValidator(msg) == msg.type \in {"HelloRequest", "UserReq"}

\* r.ValidateAll()
ValidateAll(msg) == IF msg.valid THEN NoErr ELSE ValidationErr

\* server.SayHello
\* Mutant: the name is echoed without the suffix.
SayHello_Echo(in) == [resp |-> HelloReply(in.name), err |-> NoErr]

SayHello(in) == [resp |-> HelloReply(in.name \o WorldSuffix), err |-> NoErr]

\* Mutant: Logout fails with an internal error.
Logout_Fails(in) == [resp |-> NilBody, err |-> StatusErr("Internal")]

\* server.Logout
Logout(in) == [resp |-> EmptyBody, err |-> NoErr]

\* UnimplementedGreeterServer.GetUser: server does not override it.
GetUser(in) == [resp |-> NilBody, err |-> StatusErr("Unimplemented")]

\* The handler closure of _Greeter_<Method>_Handler.
Handler(m, in) ==
    CASE m = "SayHello" -> SayHello(in)
      [] m = "Logout"   -> Logout(in)
      [] OTHER          -> GetUser(in)

\* Mutant: the request is handed to the handler without being validated.
ServerValidationUnaryInterceptor_SkipsValidation(m, in) ==
    LET h == Handler(m, in)
    IN  [resp |-> h.resp, err |-> h.err, validate |-> 0, handler |-> 1,
         events |-> <<"validation", "handler", "validation_ret">>]

\* Mutant: the validation error is logged but the handler is called anyway.
ServerValidationUnaryInterceptor_NoReturn(m, in) ==
    LET h == Handler(m, in)
    IN  [resp |-> h.resp, err |-> h.err,
         validate |-> IF HasValidator(in) THEN 1 ELSE 0, handler |-> 1,
         events |-> <<"validation">>
                    \o (IF HasValidator(in) THEN <<"ValidateAll">> ELSE <<>>)
                    \o <<"handler", "validation_ret">>]

\* Mutant: a message without ValidateAll is rejected instead of passed on.
ServerValidationUnaryInterceptor_RequiresValidator(m, in) ==
    IF ~HasValidator(in)
    THEN [resp |-> NilBody, err |-> StatusErr("InvalidArgument"),
          validate |-> 0, handler |-> 0,
          events |-> <<"validation", "validation_ret">>]
    ELSE ServerValidationUnaryInterceptor_NoReturn(m, in)

\* Mutant: the handler is called first and the request validated afterwards.
ServerValidationUnaryInterceptor_HandlerFirst(m, in) ==
    LET h == Handler(m, in)
    IN  [resp |-> h.resp, err |-> h.err,
         validate |-> IF HasValidator(in) THEN 1 ELSE 0, handler |-> 1,
         events |-> <<"validation", "handler">>
                    \o (IF HasValidator(in) THEN <<"ValidateAll">> ELSE <<>>)
                    \o <<"validation_ret">>]

\* Mutant: the validation interceptor is chained twice.
ServerValidationUnaryInterceptor_ChainedTwice(m, in) ==
    IF HasValidator(in) /\ ValidateAll(in) # NoErr
    THEN [resp |-> NilBody, err |-> ValidateAll(in),
          validate |-> 1, handler |-> 0,
          events |-> <<"validation", "ValidateAll", "validation_ret">>]
    ELSE LET h == Handler(m, in)
             v == IF HasValidator(in) THEN <<"ValidateAll">> ELSE <<>>
         IN  [resp |-> h.resp, err |-> h.err,
              validate |-> IF HasValidator(in) THEN 2 ELSE 0, handler |-> 1,
              events |-> <<"validation">> \o v \o <<"validation">> \o v
                         \o <<"handler", "validation_ret", "validation_ret">>]

\* Mutant: the error of the handler is replaced by a status of its own.
ServerValidationUnaryInterceptor_WrapsError(m, in) ==
    IF HasValidator(in) /\ ValidateAll(in) # NoErr
    THEN [resp |-> NilBody, err |-> ValidateAll(in),
          validate |-> 1, handler |-> 0,
          events |-> <<"validation", "ValidateAll", "validation_ret">>]
    ELSE LET h == Handler(m, in)
         IN  [resp |-> h.resp,
              err |-> IF h.err = NoErr THEN NoErr ELSE StatusErr("Internal"),
              validate |-> IF HasValidator(in) THEN 1 ELSE 0, handler |-> 1,
              events |-> <<"validation">>
                         \o (IF HasValidator(in) THEN <<"ValidateAll">> ELSE <<>>)
                         \o <<"handler", "validation_ret">>]

\* ServerValidationUnaryInterceptor(ctx, req, info, handler): what it
\* returns, how often it invoked ValidateAll and the handler, and the order
\* of what it did.
ServerValidationUnaryInterceptor(m, in) ==
    IF HasValidator(in) /\ ValidateAll(in) # NoErr
    THEN [resp |-> NilBody, err |-> ValidateAll(in),
          validate |-> 1, handler |-> 0,
          events |-> <<"validation", "ValidateAll", "validation_ret">>]
    ELSE LET h == Handler(m, in)
         IN  [resp |-> h.resp, err |-> h.err,
              validate |-> IF HasValidator(in) THEN 1 ELSE 0, handler |-> 1,
              events |-> <<"validation">>
                         \o (IF HasValidator(in) THEN <<"ValidateAll">> ELSE <<>>)
                         \o <<"handler", "validation_ret">>]

\* grpcServer.ServeHTTP up to the first interceptor: the transport rejects
\* what is not a gRPC request (505 for a protocol other than HTTP/2, 415 for
\* a content type it does not accept), an unregistered method is answered
\* Unimplemented without running the chain, otherwise the opentracing server
\* interceptor starts the server span from the inbound metadata.
GrpcServeHTTP(q) ==
    /\ Serving
    /\ pc[q] = "grpc_serve"
    /\ LET r   == req[q]
           key == <<q, "server">>
           bad == r.protoMajor # 2 \/ ~ValidContentType(r.contentType)
       IN  IF bad \/ r.method \notin Methods
           THEN /\ response' = [response EXCEPT ![q] =
                       [@ EXCEPT !.status = IF r.protoMajor # 2 THEN 505
                                            ELSE IF bad THEN 415 ELSE 200,
                                 !.grpcCode = IF bad THEN "" ELSE "Unimplemented"]]
                /\ pc' = [pc EXCEPT ![q] = "mux_ret"]
                /\ UNCHANGED <<spans, ctxSpan, log>>
           ELSE /\ spans' = StartSpan(spans, key, Extract(r.traceHdr).ctx)
                /\ ctxSpan' = [ctxSpan EXCEPT ![q] = key]
                /\ log' = [log EXCEPT ![q] = Append(@, "span_start")]
                /\ pc' = [pc EXCEPT ![q] = "chain"]
                /\ UNCHANGED response
    /\ UNCHANGED <<req, route, served, deferred, calls, result, cancelled, handlerArgs, main>>

\* Mutant: the handler is called with a fresh context, without the span.
HandlerCall_FreshContext(ctx, in) == [called |-> TRUE, ctx |-> NoSpan, req |-> in]

\* handler(ctx, req): the arguments the interceptor hands to the method body.
HandlerCall(ctx, in) == [called |-> TRUE, ctx |-> ctx, req |-> in]

\* The validation interceptor, called by the tracing interceptor, with the
\* method body as its handler.
ValidationStage(q) ==
    /\ Serving
    /\ pc[q] = "chain"
    /\ LET out == ServerValidationUnaryInterceptor(req[q].method, req[q].msg)
       IN  /\ result' = [result EXCEPT ![q] = [resp |-> out.resp, err |-> out.err]]
           /\ calls' = [calls EXCEPT ![q] = [validate |-> @.validate + out.validate,
                                             handler |-> @.handler + out.handler]]
           /\ log' = [log EXCEPT ![q] = @ \o out.events]
           /\ handlerArgs' = [handlerArgs EXCEPT ![q] =
                                 IF out.handler > 0
                                 THEN HandlerCall(ctxSpan[q], req[q].msg) ELSE @]
    /\ pc' = [pc EXCEPT ![q] = "chain_ret"]
    /\ UNCHANGED <<req, route, served, ctxSpan, deferred, spans, response,
                   cancelled, main>>

\* The tracing interceptor after the inner call returned: it tags the span
\* as failed when the call returned an error and finishes it; the server
\* writes the reply with the status code of the error.
TraceServerFinish(q) ==
    /\ Serving
    /\ pc[q] = "chain_ret"
    /\ spans' = FinishSpan(spans, <<q, "server">>, result[q].err # NoErr)
    /\ log' = [log EXCEPT ![q] = Append(@, "span_finish")]
    /\ response' = [response EXCEPT ![q] =
            [@ EXCEPT !.status = 200, !.grpcCode = Code(result[q].err),
                      !.body = result[q].resp]]
    /\ pc' = [pc EXCEPT ![q] = "mux_ret"]
    /\ UNCHANGED <<req, route, served, ctxSpan, deferred, calls, result, cancelled, handlerArgs, main>>

(***************************************************************************)
(* The gateway: gwmux with the loopback client RegisterGreeterHandler-     *)
(* FromEndpoint dials, and its opentracing client interceptor.             *)
(***************************************************************************)
\* Mutant: the loopback call is sent as the JSON request that came in.
LoopbackRequest_Json(r, ctx) ==
    Request(r.protoMajor, JsonCT, HdrCtx(ctx.traceId, ctx.spanId), r.method, r.msg)

\* The request the loopback client sends to 127.0.0.1:8091: HTTP/2, content
\* type application/grpc, the client span's context injected in the metadata.
LoopbackRequest(r, ctx) ==
    Request(2, GrpcMarker, HdrCtx(ctx.traceId, ctx.spanId), r.method, r.msg)

\* The status code the client reads from the server's reply.
ClientCode(rsp) == IF rsp.status = 200 THEN rsp.grpcCode ELSE "Unknown"

\* gwmux.ServeHTTP up to the RPC call: no route, 404; otherwise the client
\* interceptor starts the client span as a child of the span in the request
\* context and the call goes out to the shared listener.  The body of a
\* request that matches a route is taken to decode into the route's message.
GatewayServe(q) ==
    /\ Serving
    /\ pc[q] = "gw_serve"
    /\ IF req[q].method \notin Methods
       THEN /\ response' = [response EXCEPT ![q].status = 404]
            /\ pc' = [pc EXCEPT ![q] = "mux_ret"]
            /\ UNCHANGED <<req, spans>>
       ELSE /\ Loop(q) \in InbIds
            /\ LET key == <<q, "client">>
                   started == StartSpan(spans, key, ContextOf(spans, ctxSpan[q]))
               IN  /\ spans' = started
                   /\ req' = [req EXCEPT ![Loop(q)] =
                                 LoopbackRequest(req[q], ContextOf(started, key))]
            /\ pc' = [pc EXCEPT ![q] = "gw_wait", ![Loop(q)] = "recv"]
            /\ UNCHANGED response
    /\ UNCHANGED <<route, served, ctxSpan, deferred, calls, log, result, cancelled, handlerArgs, main>>

\* The requests whose gateway handler may panic.
MayPanic == {1}

\* otherHandler.ServeHTTP panics before the RPC call goes out: nothing is
\* written, and the panic unwinds through the handler function.
GatewayPanic(q) ==
    /\ Serving
    /\ q \in MayPanic
    /\ pc[q] = "gw_serve"
    /\ pc' = [pc EXCEPT ![q] = "mux_unwind"]
    /\ UNCHANGED <<req, route, served, ctxSpan, deferred, spans, calls, log, result,
                   response, cancelled, handlerArgs, main>>

\* The RPC call returned: the client interceptor finishes the client span and
\* the gateway writes the reply, or the error mapped to an HTTP status.
GatewayReturn(q) ==
    /\ Serving
    /\ pc[q] = "gw_wait"
    /\ Loop(q) \in InbIds
    /\ pc[Loop(q)] = "done"
    /\ LET code == ClientCode(response[Loop(q)])
       IN  /\ spans' = FinishSpan(spans, <<q, "client">>, code # "OK")
           /\ response' = [response EXCEPT ![q] =
                   [@ EXCEPT !.status = HTTPStatusFromCode(code), !.grpcCode = code,
                             !.body = response[Loop(q)].body]]
    /\ pc' = [pc EXCEPT ![q] = "mux_ret"]
    /\ UNCHANGED <<req, route, served, ctxSpan, deferred, calls, log, result,
                   cancelled, handlerArgs, main>>

\* The requests whose client may go away while the call is in flight.
Cancellable == {1}

\* The client of a native call disconnects, or its deadline expires, before
\* the interceptor chain has run: the transport cancels the call context.
\* Nothing in ServerValidationUnaryInterceptor, SayHello, Logout or the
\* generated handlers reads ctx.Done() or ctx.Err().
Cancel(q) ==
    /\ Serving
    /\ q \in Cancellable
    /\ pc[q] \in {"grpc_serve", "chain"}
    /\ ~cancelled[q]
    /\ cancelled' = [cancelled EXCEPT ![q] = TRUE]
    /\ UNCHANGED <<pc, req, route, served, ctxSpan, deferred, spans, calls, log, result,
                   response, handlerArgs, main>>

Next ==
    \/ LoadConfig
    \/ NewTracer
    \/ Listen
    \/ RegisterGateway
    \/ Serve
    \/ ServeReturns
    \/ \E q \in InbIds :
        \/ Cancel(q)
        \/ Arrive(q)
        \/ grpcHandlerFunc(q)
        \/ GrpcServeHTTP(q)
        \/ ValidationStage(q)
        \/ TraceServerFinish(q)
        \/ GatewayServe(q)
        \/ GatewayReturn(q)
        \/ GatewayPanic(q)
        \/ MuxReturn(q)

Spec == Init /\ [][Next]_vars


(***************************************************************************)
(* Vocabulary of the properties.                                           *)
(***************************************************************************)
\* Position of the first e in l, 0 when e does not occur.
Pos(l, e) ==
    IF \E i \in 1..Len(l) : l[i] = e
    THEN CHOOSE i \in 1..Len(l) : l[i] = e /\ \A j \in 1..(i - 1) : l[j] # e
    ELSE 0

Count(l, e) == Cardinality({i \in 1..Len(l) : l[i] = e})

\* The content type names the gRPC encoding: "application/grpc" occurs in it.
HasGrpcMarker(ct) ==
    \E i \in 1..Len(ct) : i < Len(ct) /\ ct[i] = "application/" /\ ct[i + 1] = "grpc"

\* grpcHandlerFunc has classified q and called a backend handler.
Dispatched(q) == pc[q] \notin {"idle", "recv"}

\* The interceptor chain reached the validation stage for q.
ChainRan(q) == Pos(log[q], "validation") > 0

\* The gRPC server invoked a registered method for q: the chain was entered.
RpcInvoked(q) == pc[q] \in {"chain", "chain_ret"} \/ ChainRan(q)

\* The validation of q's message fails.
FailsValidation(q) == HasValidator(req[q].msg) /\ ~req[q].msg.valid

HexValue(d) == (CHOOSE i \in 1..Len(HexDigits) : HexDigits[i] = d) - 1

\* The number a hexadecimal string denotes.
RECURSIVE FromHex(_)
FromHex(h) ==
    IF h = <<>> THEN 0
    ELSE 16 * FromHex(SubSeq(h, 1, Len(h) - 1)) + HexValue(h[Len(h)])


C2_ExactlyOneBackend ==
    \A q \in InbIds :
        /\ ~Dispatched(q) => served[q] = [grpc |-> 0, other |-> 0]
        /\ Dispatched(q) =>
              served[q] = IF route[q] = "grpc" THEN [grpc |-> 1, other |-> 0]
                          ELSE [grpc |-> 0, other |-> 1]
        /\ pc[q] = "done" => response[q].status # 0

C2_Witness ==
    /\ \E q \in Reqs : pc[q] = "done" /\ served[q] = [grpc |-> 0, other |-> 1]
    /\ \E q \in InbIds : pc[q] = "done" /\ served[q] = [grpc |-> 1, other |-> 0]

(***************************************************************************)
(* C3.  When the request message has ValidateAll and it fails, the         *)
(* validation interceptor returns an error and the method body is not      *)
(* invoked for that call.                                                  *)
(***************************************************************************)
C3_ValidationShortCircuits ==
    \A q \in InbIds :
        (ChainRan(q) /\ FailsValidation(q)) =>
            /\ result[q].err # NoErr
            /\ calls[q].handler = 0
            /\ calls[q].validate = 1
            /\ Pos(log[q], "handler") = 0

C3_Witness ==
    \E q \in InbIds : ChainRan(q) /\ FailsValidation(q) /\ pc[q] = "done"


(***************************************************************************)
(* C4.  A call whose validation failed ends with the status code           *)
(* InvalidArgument, and on the gateway path with a 4xx HTTP status.        *)
(***************************************************************************)
C4_InvalidArgumentKind ==
    \A q \in InbIds :
        /\ (ChainRan(q) /\ FailsValidation(q) /\ pc[q] = "done") =>
                response[q].grpcCode = "InvalidArgument"
        /\ (route[q] = "gateway" /\ FailsValidation(q) /\ pc[q] = "done") =>
                response[q].status \in 400..499

(***************************************************************************)
(* C5.  When the request message has no ValidateAll, the validation        *)
(* interceptor invokes the handler exactly once and returns exactly what   *)
(* the handler returned: it adds no error of its own.                      *)
(***************************************************************************)
C5_NoValidatorPassesThrough ==
    \A q \in InbIds :
        (ChainRan(q) /\ ~HasValidator(req[q].msg)) =>
            /\ calls[q] = [validate |-> 0, handler |-> 1]
            /\ Count(log[q], "handler") = 1
            /\ result[q].err = NoErr
            /\ result[q].resp = EmptyBody

C5_Witness ==
    \E q \in InbIds :
        /\ ChainRan(q)
        /\ req[q].method = "Logout"
        /\ ~HasValidator(req[q].msg)
        /\ pc[q] = "done"

(***************************************************************************)
(* C6.  Every span is started once and finished at most once; once the     *)
(* task of the request it belongs to is over it has been finished exactly  *)
(* once.  Every RPC invocation that reached the chain has exactly one      *)
(* server span, and every gateway call that went out has exactly one       *)
(* client span, whether the call succeeded, failed validation or failed    *)
(* in the handler.                                                         *)
(***************************************************************************)
C6_SpansStartedAndFinishedOnce ==
    /\ \A key \in DOMAIN spans :
          /\ spans[key].started = 1
          /\ spans[key].finished <= 1
          /\ pc[key[1]] = "done" => spans[key].finished = 1
    /\ \A q \in InbIds :
          /\ RpcInvoked(q) <=> <<q, "server">> \in DOMAIN spans
          /\ RpcInvoked(q) => Count(log[q], "span_start") = 1
          /\ (ChainRan(q) /\ pc[q] = "done") => Count(log[q], "span_finish") = 1
          /\ pc[q] = "gw_wait" => <<q, "client">> \in DOMAIN spans

\* Calls of all three outcomes have completed with their spans finished.
C6_Witness ==
    /\ \E q \in InbIds : /\ pc[q] = "done" /\ ChainRan(q) /\ FailsValidation(q)
                         /\ spans[<<q, "server">>].finished = 1
    /\ \E q \in InbIds : /\ pc[q] = "done" /\ ChainRan(q) /\ calls[q].handler = 1
                         /\ result[q].err = NoErr
                         /\ spans[<<q, "server">>].finished = 1
    /\ \E q \in Reqs : /\ pc[q] = "done" /\ route[q] = "gateway"
                       /\ <<q, "ServeHTTP">> \in DOMAIN spans
                       /\ <<q, "client">> \in DOMAIN spans

(***************************************************************************)
(* C7.  On the server the stages nest trace -> validation -> method body:  *)
(* the span is started before the validation interceptor is entered,       *)
(* ValidateAll returns before the method body starts, the span is finished *)
(* only after the validation interceptor (and the method body, if it ran)  *)
(* returned, and the span is open whenever the validation stage runs.      *)
(***************************************************************************)
C7_StageNesting ==
    \A q \in InbIds :
        LET l == log[q]
        IN  /\ l # <<>> => l[1] = "span_start"
            /\ Pos(l, "validation") > 0 => Pos(l, "span_start") < Pos(l, "validation")
            /\ Pos(l, "ValidateAll") > 0 => Pos(l, "validation") < Pos(l, "ValidateAll")
            /\ Pos(l, "handler") > 0 =>
                  /\ Pos(l, "validation") < Pos(l, "handler")
                  /\ Pos(l, "ValidateAll") < Pos(l, "handler")
                  /\ Pos(l, "handler") < Pos(l, "validation_ret")
            /\ Pos(l, "span_finish") > 0 =>
                  /\ Pos(l, "validation_ret") > 0
                  /\ Pos(l, "validation_ret") < Pos(l, "span_finish")
                  /\ Pos(l, "span_finish") = Len(l)
            /\ pc[q] = "chain" =>
                  /\ <<q, "server">> \in DOMAIN spans
                  /\ spans[<<q, "server">>].finished = 0

C7_Witness ==
    \E q \in InbIds :
        log[q] = <<"span_start", "validation", "ValidateAll", "handler",
                   "validation_ret", "span_finish">>


(***************************************************************************)
(* C8 as stated.  Every request taking the gateway branch has a span       *)
(* started by grpcHandlerFunc, a root span when the parent context is      *)
(* absent or unparsable, and is still served.                              *)
(***************************************************************************)
C8_AlwaysStartsSpan ==
    \A q \in InbIds :
        route[q] = "gateway" =>
            /\ <<q, "ServeHTTP">> \in DOMAIN spans
            /\ req[q].traceHdr.st # "ok" => spans[<<q, "ServeHTTP">>].parentId = 0
            /\ pc[q] = "done" => response[q].status # 0

(***************************************************************************)
(* C8 amended.  A trace-extraction error is never fatal: every request     *)
(* taking the gateway branch is still served.  When the parent context is  *)
(* absent grpcHandlerFunc starts a root span.  When it is present but      *)
(* unparsable grpcHandlerFunc starts no span and sets no trace-id header;  *)
(* the first span of such a request is the root span the loopback client   *)
(* starts once the request reaches an RPC call.                            *)
(***************************************************************************)
C8_ExtractionErrorNotFatal ==
    \A q \in InbIds :
        route[q] = "gateway" =>
            /\ pc[q] = "done" => response[q].status # 0
            /\ req[q].traceHdr.st = "absent" =>
                  /\ <<q, "ServeHTTP">> \in DOMAIN spans
                  /\ spans[<<q, "ServeHTTP">>].parentId = 0
                  /\ spans[<<q, "ServeHTTP">>].traceId = spans[<<q, "ServeHTTP">>].id
            /\ req[q].traceHdr.st = "corrupt" =>
                  /\ <<q, "ServeHTTP">> \notin DOMAIN spans
                  /\ ctxSpan[q] = NoSpan
                  /\ response[q].traceHdr = <<>>
                  /\ <<q, "client">> \in DOMAIN spans =>
                        spans[<<q, "client">>].parentId = 0

\* A gateway request with an unparsable parent context was served through
\* the RPC call, and one with no parent context was served under a root span.
C8_Witness ==
    \E q \in Reqs :
        /\ route[q] = "gateway"
        /\ pc[q] = "done"
        /\ req[q].traceHdr.st = "corrupt"
        /\ response[q].status = 200
        /\ <<q, "client">> \in DOMAIN spans

(***************************************************************************)
(* C9.  For a request taking the gateway branch whose headers carry a      *)
(* parent trace context, the span grpcHandlerFunc starts is a child of     *)
(* that parent (same trace, parent id the parent's span id); when no       *)
(* parent context is found the span is the root of a new trace.            *)
(***************************************************************************)
C9_ChildOfInboundParent ==
    \A q \in InbIds :
        route[q] = "gateway" =>
            /\ req[q].traceHdr.st = "ok" =>
                  /\ <<q, "ServeHTTP">> \in DOMAIN spans
                  /\ spans[<<q, "ServeHTTP">>].parentId = req[q].traceHdr.spanId
                  /\ spans[<<q, "ServeHTTP">>].traceId = req[q].traceHdr.traceId
            /\ req[q].traceHdr.st = "absent" =>
                  /\ <<q, "ServeHTTP">> \in DOMAIN spans
                  /\ spans[<<q, "ServeHTTP">>].parentId = 0
                  /\ spans[<<q, "ServeHTTP">>].traceId \notin
                        {h.traceId : h \in ExternalParents}

C9_Witness ==
    /\ \E q \in Reqs : /\ route[q] = "gateway"
                       /\ req[q].traceHdr.st = "ok"
                       /\ spans[<<q, "ServeHTTP">>].finished = 1
    /\ \E q \in Reqs : /\ route[q] = "gateway"
                       /\ req[q].traceHdr.st = "absent"
                       /\ spans[<<q, "ServeHTTP">>].finished = 1

(***************************************************************************)
(* C10 as stated.  Whenever a span was started for an external request,    *)
(* the response to that request carries a trace-id header with that        *)
(* span's trace id.                                                        *)
(***************************************************************************)
C10_HeaderForEverySpan ==
    \A key \in DOMAIN spans :
        (key[1] \in Reqs /\ pc[key[1]] = "done") =>
            /\ response[key[1]].traceHdr # <<>>
            /\ FromHex(response[key[1]].traceHdr) = spans[key].traceId

(***************************************************************************)
(* C10 amended.  Whenever grpcHandlerFunc started a span for a request     *)
(* (gateway branch, parent context extracted or not found), the response   *)
(* to that request carries the trace-id header with that span's trace id,  *)
(* set before the gateway handler runs.  A request for which only the      *)
(* interceptors started spans (a native request, a gateway request with    *)
(* an unparsable parent context) gets no trace-id header.                  *)
(***************************************************************************)
C10_HeaderForServeHTTPSpan ==
    \A q \in InbIds :
        /\ <<q, "ServeHTTP">> \in DOMAIN spans =>
              /\ response[q].traceHdr # <<>>
              /\ FromHex(response[q].traceHdr) = spans[<<q, "ServeHTTP">>].traceId
        /\ <<q, "ServeHTTP">> \notin DOMAIN spans => response[q].traceHdr = <<>>

\* A gateway request with a parent context was answered with the parent's
\* trace id in the header, while a native request was answered, under its
\* server span, without the header.
C10_Witness ==
    /\ \E q \in Reqs : /\ pc[q] = "done"
                       /\ req[q].traceHdr.st = "ok"
                       /\ <<q, "ServeHTTP">> \in DOMAIN spans
                       /\ response[q].traceHdr = <<"c", "8">>
    /\ \E q \in Reqs : /\ pc[q] = "done"
                       /\ <<q, "server">> \in DOMAIN spans
                       /\ response[q].traceHdr = <<>>


(***************************************************************************)
(* Vocabulary of the properties about a gateway call and its two hops.     *)
(***************************************************************************)
\* The gateway sent q's call out through the loopback client.
CallWentOut(q) == route[q] = "gateway" /\ pc[q] \in {"gw_wait", "mux_ret", "done"}
                     /\ req[q].method \in Methods

\* q is an external request that took the gateway branch, its call went out
\* and its task is over.
GatewayCallDone(q) == q \in Reqs /\ CallWentOut(q) /\ pc[q] = "done"

\* q is an external request served by the gRPC server directly, its method
\* was invoked and its task is over.
NativeCallDone(q) == q \in Reqs /\ route[q] = "grpc" /\ ChainRan(q) /\ pc[q] = "done"

(***************************************************************************)
(* C11 as stated.  A gateway-originated call passes through the trace      *)
(* stage and the validation stage at both hops: two trace stages and two   *)
(* validation stages for one call.                                         *)
(***************************************************************************)
C11_FullChainTwice ==
    \A q \in Reqs :
        GatewayCallDone(q) =>
            /\ <<q, "client">> \in DOMAIN spans
            /\ <<Loop(q), "server">> \in DOMAIN spans
            /\ Count(log[q], "validation") + Count(log[Loop(q)], "validation") = 2

(***************************************************************************)
(* C11 amended.  Every RPC invocation passes through the server chain      *)
(* (trace stage, then validation stage) exactly once at the server hop.    *)
(* A gateway-originated call passes in addition through the trace stage    *)
(* alone at the gateway's client hop: it has two trace stages (client      *)
(* span, server span) and one validation stage, a direct native call has   *)
(* one of each.                                                            *)
(***************************************************************************)
C11_ChainOncePerHop ==
    \A q \in InbIds :
        /\ (RpcInvoked(q) /\ pc[q] = "done") =>
              /\ Count(log[q], "span_start") = 1
              /\ Count(log[q], "validation") = 1
              /\ spans[<<q, "server">>].started = 1
              /\ calls[q].validate <= 1
        /\ CallWentOut(q) =>
              /\ <<q, "client">> \in DOMAIN spans
              /\ spans[<<q, "client">>].started = 1
              /\ Count(log[q], "validation") = 0
              /\ calls[q] = [validate |-> 0, handler |-> 0]
        /\ GatewayCallDone(q) =>
              /\ <<Loop(q), "server">> \in DOMAIN spans
              /\ Count(log[Loop(q)], "validation") = 1
        /\ NativeCallDone(q) =>
              /\ <<q, "client">> \notin DOMAIN spans
              /\ <<q, "ServeHTTP">> \notin DOMAIN spans

\* A gateway call and a direct native call have both completed.
C11_Witness ==
    /\ \E q \in Reqs : GatewayCallDone(q) /\ ChainRan(Loop(q))
    /\ \E q \in Reqs : NativeCallDone(q)

(***************************************************************************)
(* C12.  A handler error is propagated unchanged through the validation    *)
(* stage and the trace stage: whenever validation passes or is not         *)
(* applicable, what ServerValidationUnaryInterceptor returns is exactly    *)
(* the response and error of the handler, the reply carries the status     *)
(* code of that very error, and when the handler returned an error the     *)
(* server span of the call is finished as failed.                          *)
(***************************************************************************)
\* The validation stage of q has returned.
ChainReturned(q) == Pos(log[q], "validation_ret") > 0

\* The trace stage of q has returned.
TraceReturned(q) == Pos(log[q], "span_finish") > 0

C12_HandlerErrorPropagated ==
    \A q \in InbIds :
        (ChainReturned(q) /\ ~FailsValidation(q)) =>
            LET h == Handler(req[q].method, req[q].msg)
            IN  /\ calls[q].handler = 1
                /\ result[q] = [resp |-> h.resp, err |-> h.err]
                /\ req[q].method = "GetUser" => result[q].err = StatusErr("Unimplemented")
                /\ TraceReturned(q) =>
                      /\ response[q].grpcCode = Code(h.err)
                      /\ response[q].body = h.resp
                      /\ spans[<<q, "server">>].finished = 1
                      /\ spans[<<q, "server">>].failed <=> h.err # NoErr

\* A call whose handler returned an error has completed, with its span
\* finished as failed, and so has a call whose handler returned none.
C12_Witness ==
    /\ \E q \in InbIds : /\ pc[q] = "done" /\ ChainReturned(q) /\ ~FailsValidation(q)
                         /\ result[q].err = StatusErr("Unimplemented")
                         /\ response[q].grpcCode = "Unimplemented"
                         /\ spans[<<q, "server">>].failed
    /\ \E q \in InbIds : /\ pc[q] = "done" /\ ChainReturned(q) /\ ~FailsValidation(q)
                         /\ result[q].err = NoErr
                         /\ ~spans[<<q, "server">>].failed

(***************************************************************************)
(* C13.  A failure of net.Listen or of the gateway registration is fatal:  *)
(* the process has exited at that very step, no request was ever accepted  *)
(* or dispatched by it, and a process that serves, or has ever accepted a  *)
(* request, has both bound the listener and registered the gateway.        *)
(***************************************************************************)
\* Request q has never been accepted.
Untouched(q) ==
    /\ pc[q] = "idle"
    /\ req[q] = NoReq
    /\ route[q] = "none"
    /\ served[q] = [grpc |-> 0, other |-> 0]

C13_StartupFailureIsFatal ==
    /\ main.failed \in {"listen", "register"} =>
          /\ main.pc = "exited"
          /\ \A q \in InbIds : Untouched(q)
          /\ spans = <<>>
    /\ (Serving \/ \E q \in InbIds : ~Untouched(q)) =>
          /\ main.listening
          /\ main.registered
          /\ main.failed \in {"none", "serve"}

\* The listener was bound, the registration failed, and the process is gone.
C13_Witness ==
    /\ main.failed = "register"
    /\ main.listening
    /\ main.pc = "exited"

(***************************************************************************)
(* C14.  When the call context of a request is cancelled while the request *)
(* is in flight, before its interceptor chain has run, neither ValidateAll *)
(* nor the method body is run to completion, the call ends as Canceled,    *)
(* and its server span is finished and marked as failed by the time the    *)
(* task of the request ends.                                               *)
(***************************************************************************)
C14_CancellationObserved ==
    \A q \in InbIds :
        (cancelled[q] /\ RpcInvoked(q) /\ pc[q] = "done") =>
            /\ calls[q] = [validate |-> 0, handler |-> 0]
            /\ response[q].grpcCode = "Canceled"
            /\ spans[<<q, "server">>].finished = 1
            /\ spans[<<q, "server">>].failed

(***************************************************************************)
(* C15.  Requests are isolated from each other under every interleaving:   *)
(* a step changes the state (routing decision, context, spans, calls,      *)
(* result, response) of one external request and of the loopback calls it  *)
(* caused, of no other request, and leaves the process-wide state alone;   *)
(* the span on a request's context is a span of that request; and what a   *)
(* call returns, and whether its span is failed, follows from its own      *)
(* request, whatever the other requests in flight did.                     *)
(***************************************************************************)
\* The external request that inbound request q belongs to.
Root(q) == ((q - 1) % NumReqs) + 1

\* Everything the program holds for external request p and its loopbacks.
FamilyState(p) ==
    [own |-> [q \in {i \in InbIds : Root(i) = p} |->
                 <<pc[q], req[q], route[q], served[q], ctxSpan[q], deferred[q],
                   calls[q], log[q], result[q], response[q], cancelled[q],
                   handlerArgs[q]>>],
     spans |-> [k \in {j \in DOMAIN spans : Root(j[1]) = p} |-> spans[k]]]

C15_OwnState ==
    \A q \in InbIds :
        /\ ctxSpan[q] # NoSpan => (ctxSpan[q][1] = q /\ ctxSpan[q] \in DOMAIN spans)
        /\ ChainReturned(q) =>
              LET out == ServerValidationUnaryInterceptor(req[q].method, req[q].msg)
              IN  /\ result[q] = [resp |-> out.resp, err |-> out.err]
                  /\ TraceReturned(q) =>
                        /\ response[q].grpcCode = Code(out.err)
                        /\ spans[<<q, "server">>].failed <=> out.err # NoErr
        /\ ~ChainReturned(q) => result[q] = NoResult

C15_Step ==
    /\ \A p, r \in Reqs :
          (p # r /\ FamilyState(p)' # FamilyState(p)) => FamilyState(r)' = FamilyState(r)
    /\ (\E p \in Reqs : FamilyState(p)' # FamilyState(p)) => main' = main

C15_Isolation == []C15_OwnState /\ [][C15_Step]_vars

\* Two requests were in flight together; one failed validation, after a
\* trace-extraction error, and the other completed through the gateway with
\* success and no failed span.
C15_Witness ==
    \E p, r \in Reqs :
        /\ p # r
        /\ pc[p] = "done" /\ pc[r] = "done"
        /\ FailsValidation(p) /\ result[p].err = ValidationErr
        /\ req[p].traceHdr = HdrCorrupt
        /\ spans[<<p, "server">>].failed
        /\ route[r] = "gateway"
        /\ response[r].status = 200 /\ response[r].grpcCode = "OK"
        /\ \A k \in DOMAIN spans : Root(k[1]) = r => ~spans[k].failed
        /\ spans[<<r, "ServeHTTP">>].finished = 1

(***************************************************************************)
(* C16.  The configuration, the logger and the global tracer are each      *)
(* initialised at most once, and exactly once by the time the accept loop  *)
(* is entered or any request has been accepted; no step taken while the    *)
(* process serves (routing, tracing, validation, method body) initialises  *)
(* or replaces any of them.                                                *)
(***************************************************************************)
\* How often each piece of process-wide state has been initialised.
Initialised == <<main.config, main.logger, main.tracer>>

C16_InitialisedOnce ==
    /\ main.config <= 1 /\ main.logger <= 1 /\ main.tracer <= 1
    /\ (main.pc \in {"serve", "serving"} \/ \E q \in InbIds : ~Untouched(q)) =>
          Initialised = <<1, 1, 1>>
    /\ main.tracer = 1 => (main.config = 1 /\ main.logger = 1)

C16_Step == Serving => Initialised' = Initialised

C16_InitOnceBeforeServing == []C16_InitialisedOnce /\ [][C16_Step]_vars

\* The process serves, requests of both branches have been handled with
\* spans of the global tracer, and each initialisation happened once.
C16_Witness ==
    /\ Serving
    /\ Initialised = <<1, 1, 1>>
    /\ \E q \in Reqs : pc[q] = "done" /\ route[q] = "gateway" /\ ctxSpan[q] # NoSpan
    /\ \E q \in InbIds : pc[q] = "done" /\ calls[q].handler = 1

(***************************************************************************)
(* C17.  For every name, SayHello replies with the name followed by the    *)
(* literal " world" and no error; the reply of a native call and the body  *)
(* the gateway writes for the same name are the same message, with code OK *)
(* and HTTP status 200.                                                    *)
(***************************************************************************)
\* The reply the scenario expects for a name.
Greeting(n) == [type |-> "HelloReply", message |-> n \o <<" ", "world">>]

\* A SayHello call that passes validation.
ValidHello(q) == req[q].method = "SayHello" /\ ~FailsValidation(q)

ValidGetUser(q) == req[q].method = "GetUser" /\ ~FailsValidation(q)

C18_GetUserReturnsRecord ==
    /\ \A q \in InbIds :
          (ValidGetUser(q) /\ ChainReturned(q)) =>
              /\ result[q].err = NoErr
              /\ result[q].resp.type = "UserReply"
    /\ \A q \in Reqs :
          (ValidGetUser(q) /\ GatewayCallDone(q)) =>
              /\ response[q].status = 200
              /\ response[q].body = result[Loop(q)].resp
              /\ response[q].body.type = "UserReply"

(***************************************************************************)
(* C19.  A GetUser call for an id that does not exist ends in a handler    *)
(* error which the gateway maps to HTTP 404 (not found) or 500 (internal), *)
(* and the spans of the call are marked failed.  The registered server has *)
(* no user store, so no id exists for it.                                  *)
(***************************************************************************)
C19_GetUserNotFound ==
    \A q \in Reqs :
        (ValidGetUser(q) /\ GatewayCallDone(q)) =>
            /\ result[Loop(q)].err # NoErr
            /\ response[q].status \in {404, 500}
            /\ spans[<<Loop(q), "server">>].failed
            /\ spans[<<q, "client">>].failed

(***************************************************************************)
(* C20.  Logout with an empty request returns an empty response and no     *)
(* error on the native and on the gateway path, the gateway answers with   *)
(* HTTP status 200, and the validation stage never rejects it: Empty has   *)
(* no ValidateAll, so none is called.                                      *)
(***************************************************************************)
\* The empty reply.
EmptyReply == [type |-> "Empty", message |-> <<>>]

C20_LogoutSucceeds ==
    /\ Logout(Empty) = [resp |-> EmptyReply, err |-> NoErr]
    /\ \A q \in InbIds :
          (req[q].method = "Logout" /\ ChainReturned(q)) =>
              /\ calls[q] = [validate |-> 0, handler |-> 1]
              /\ result[q] = [resp |-> EmptyReply, err |-> NoErr]
              /\ TraceReturned(q) =>
                    /\ response[q].grpcCode = "OK"
                    /\ response[q].body = EmptyReply
                    /\ ~spans[<<q, "server">>].failed
    /\ \A q \in Reqs :
          (req[q].method = "Logout" /\ GatewayCallDone(q)) =>
              /\ response[q].status = 200
              /\ response[q].body = EmptyReply

\* A Logout went through the gateway: its loopback call took the native
\* branch and returned the empty reply, and the gateway answered 200.
C20_Witness ==
    \E q \in Reqs :
        /\ GatewayCallDone(q)
        /\ req[q].method = "Logout"
        /\ route[Loop(q)] = "grpc"
        /\ result[Loop(q)] = [resp |-> EmptyReply, err |-> NoErr]
        /\ response[q].status = 200

(***************************************************************************)
(* C21.  When validation succeeds (or the message has no ValidateAll), the *)
(* method body is called with exactly the call context and the request     *)
(* object the validation interceptor received: the context still carries   *)
(* the server span the tracing interceptor attached, the request is the    *)
(* one that arrived, and the validation step leaves both as they were.     *)
(* When validation fails the method body is not called at all.             *)
(***************************************************************************)
C21_HandlerGetsSameArgs ==
    \A q \in InbIds :
        /\ (ChainReturned(q) /\ ~FailsValidation(q)) =>
              /\ handlerArgs[q] = [called |-> TRUE, ctx |-> <<q, "server">>,
                                   req |-> req[q].msg]
              /\ ctxSpan[q] = <<q, "server">>
              /\ handlerArgs[q].ctx = ctxSpan[q]
              /\ result[q].resp = Handler(req[q].method, handlerArgs[q].req).resp
        /\ (ChainReturned(q) /\ FailsValidation(q)) => handlerArgs[q] = NoCall
        /\ ~ChainReturned(q) => handlerArgs[q] = NoCall

C21_Step ==
    \A q \in InbIds :
        (pc[q] = "chain" /\ pc'[q] = "chain_ret") =>
            /\ req'[q] = req[q]
            /\ ctxSpan'[q] = ctxSpan[q]
            /\ spans' = spans

C21_ArgsPassedUnchanged == []C21_HandlerGetsSameArgs /\ [][C21_Step]_vars

\* A validated SayHello reached its method body with the span in its context.
C21_Witness ==
    \E q \in InbIds :
        /\ pc[q] = "done"
        /\ HasValidator(req[q].msg) /\ req[q].msg.valid
        /\ calls[q] = [validate |-> 1, handler |-> 1]
        /\ handlerArgs[q].called
        /\ handlerArgs[q].ctx = <<q, "server">>
        /\ handlerArgs[q].req = req[q].msg

(***************************************************************************)
(* C22.  Every external request taking the gateway branch terminates, and  *)
(* its loopback call re-enters the multiplexer once: the loopback request  *)
(* is classified as native and dispatched to the RPC server, a gateway     *)
(* request whose call went out causes exactly one nested native dispatch   *)
(* (one that matches no route causes none), and no request is ever more    *)
(* than two deep.  Termination is the sum of two facts: while the process  *)
(* serves, a gateway request that is not over always has a step to take,   *)
(* itself or its loopback call, and every step of a request strictly       *)
(* lowers a measure that is bounded below.                                 *)
(***************************************************************************)
\* The steps of the task of inbound request q.
TaskStep(q) ==
    \/ grpcHandlerFunc(q)
    \/ GrpcServeHTTP(q)
    \/ ValidationStage(q)
    \/ TraceServerFinish(q)
    \/ GatewayServe(q)
    \/ GatewayReturn(q)
    \/ GatewayPanic(q)
    \/ MuxReturn(q)

\* The task of request q is over.
TaskOver(q) == pc[q] \in {"done", "panicked"}

\* An upper bound of the steps a task at position p still has to take.
StepsLeft(p) ==
    CASE p = "idle"       -> 7
      [] p = "recv"       -> 6
      [] p = "grpc_serve" -> 5
      [] p = "gw_serve"   -> 5
      [] p = "chain"      -> 4
      [] p = "gw_wait"    -> 4
      [] p = "chain_ret"  -> 3
      [] p = "mux_ret"    -> 1
      [] p = "mux_unwind" -> 1
      [] OTHER            -> 0

RECURSIVE StepsLeftUpTo(_, _)
StepsLeftUpTo(f, n) == IF n = 0 THEN 0 ELSE StepsLeft(f[n]) + StepsLeftUpTo(f, n - 1)

C22_ReentryOnce ==
    \A q \in InbIds :
        /\ pc[q] # "idle" => Depth(q) <= 2
        /\ (Depth(q) = 2 /\ Dispatched(q)) =>
              /\ route[q] = "grpc"
              /\ served[q] = [grpc |-> 1, other |-> 0]
        /\ (q \in Reqs /\ CallWentOut(q)) =>
              /\ req[Loop(q)].protoMajor = 2
              /\ req[Loop(q)].contentType = <<"application/", "grpc">>
              /\ pc[Loop(Loop(q))] = "idle"
        /\ (q \in Reqs /\ GatewayCallDone(q)) => served[Loop(q)].grpc = 1
        /\ (q \in Reqs /\ route[q] = "gateway" /\ ~CallWentOut(q)) => pc[Loop(q)] = "idle"
        /\ (q \in Reqs /\ route[q] = "gateway" /\ Serving /\ ~TaskOver(q)) =>
              ENABLED (TaskStep(q) \/ TaskStep(Loop(q)))

C22_Step ==
    pc' # pc => StepsLeftUpTo(pc', MaxHops * NumReqs) < StepsLeftUpTo(pc, MaxHops * NumReqs)

C22_GatewayTerminates == []C22_ReentryOnce /\ [][C22_Step]_vars

\* A gateway request is over after exactly one nested native dispatch.
C22_Witness ==
    \E q \in Reqs :
        /\ GatewayCallDone(q)
        /\ served[q] = [grpc |-> 0, other |-> 1]
        /\ Depth(Loop(q)) = 2
        /\ route[Loop(q)] = "grpc"
        /\ served[Loop(q)] = [grpc |-> 1, other |-> 0]
        /\ pc[Loop(q)] = "done"
        /\ pc[Loop(Loop(q))] = "idle"

(***************************************************************************)
(* C23.  On every path on which the process ends after the tracer was      *)
(* created (net.Listen failed, the gateway registration failed, or Serve   *)
(* returned), the tracer has been closed and the logger synced by the time *)
(* the process has exited.                                                 *)
(***************************************************************************)
C23_FlushedOnExit ==
    (main.pc = "exited" /\ main.tracer >= 1) =>
        /\ main.closed = 1
        /\ main.synced = 1
        /\ main.defers = <<>>

(***************************************************************************)
(* C24.  In the gateway branch, a front-door span that was started is in   *)
(* the request context and its trace id is in the response header before   *)
(* anything of the gateway handler has run; it is open for as long as the  *)
(* gateway handler runs and finished exactly once when the handler         *)
(* function is left, by normal return and by a panic alike.  In the native *)
(* branch the multiplexer starts no span, registers no deferred Finish and *)
(* sets no trace-id header.                                                *)
(***************************************************************************)
C24_FrontDoorSpan ==
    \A q \in InbIds :
        LET key == <<q, "ServeHTTP">>
        IN  /\ (route[q] = "gateway" /\ key \in DOMAIN spans) =>
                  /\ ctxSpan[q] = key
                  /\ deferred[q]
                  /\ response[q].traceHdr = ToHex(spans[key].traceId)
                  /\ spans[key].started = 1
                  /\ pc[q] = "gw_serve" => <<q, "client">> \notin DOMAIN spans
                  /\ pc[q] \in {"gw_serve", "gw_wait", "mux_ret", "mux_unwind"} =>
                        spans[key].finished = 0
                  /\ pc[q] \in {"done", "panicked"} => spans[key].finished = 1
            /\ (route[q] = "gateway" /\ key \notin DOMAIN spans) =>
                  /\ ctxSpan[q] = NoSpan
                  /\ ~deferred[q]
                  /\ response[q].traceHdr = <<>>
            /\ route[q] = "grpc" =>
                  /\ key \notin DOMAIN spans
                  /\ ~deferred[q]
                  /\ response[q].traceHdr = <<>>

\* One gateway request ended in a panic and another returned normally, each
\* with its span finished once; the loopback call of the latter took the
\* native branch, where the multiplexer started no span.
C24_Witness ==
    \E p, r \in Reqs :
        /\ pc[p] = "panicked"
        /\ <<p, "ServeHTTP">> \in DOMAIN spans
        /\ <<r, "ServeHTTP">> \in DOMAIN spans
        /\ spans[<<p, "ServeHTTP">>].finished = 1
        /\ response[p].traceHdr # <<>>
        /\ pc[r] = "done" /\ route[r] = "gateway"
        /\ spans[<<r, "ServeHTTP">>].finished = 1
        /\ response[r].traceHdr # <<>>
        /\ route[Loop(r)] = "grpc"
        /\ <<Loop(r), "ServeHTTP">> \notin DOMAIN spans

(***************************************************************************)
(* C25.  The native/gateway classification is a function of the protocol   *)
(* major version and the Content-Type value alone, and the test on the     *)
(* Content-Type is a substring test: an HTTP/2 request is native when      *)
(* "application/grpc" occurs anywhere in the value, whatever precedes or   *)
(* follows it (application/grpc+proto, text application/grpc), and an      *)
(* HTTP/1.x request is sent to the gateway even with Content-Type          *)
(* application/grpc.  Method, message and trace header play no part.       *)
(***************************************************************************)
\* The marker with something before it and something after it.
Embedded(pre, post) == pre \o <<"application/", "grpc">> \o post

\* The classification of requests with the marker embedded in the value.
EmbeddedCases ==
    \A pre \in {<<>>, <<"text">>}, post \in {<<>>, <<"+proto">>, <<"text">>} :
        \A c \in ProbeCalls, th \in TraceHeaders :
            /\ IsGrpcCall(Request(2, Embedded(pre, post), th, c[1], c[2]))
            /\ ~IsGrpcCall(Request(1, Embedded(pre, post), th, c[1], c[2]))

C25_SubstringClassification ==
    /\ EmbeddedCases
    /\ \A q \in InbIds :
          Dispatched(q) =>
              /\ (req[q].protoMajor = 2 /\
                  \E i \in 1..Len(req[q].contentType) :
                      \E j \in i..Len(req[q].contentType) :
                          SubSeq(req[q].contentType, i, j) = <<"application/", "grpc">>)
                    => route[q] = "grpc"
              /\ req[q].protoMajor # 2 => route[q] = "gateway"
              /\ route[q] = "grpc" => served[q].grpc = 1
    /\ \A p \in Reqs : \A q \in InbIds :
          (p < q /\ Dispatched(p) /\ Dispatched(q)
             /\ req[p].protoMajor = req[q].protoMajor
             /\ req[p].contentType = req[q].contentType) => route[p] = route[q]

\* An HTTP/2 request whose Content-Type only contains the marker, after
\* other text, was handed to the RPC server.
C25_Witness ==
    \E q \in Reqs :
        /\ pc[q] = "done"
        /\ req[q].protoMajor = 2
        /\ req[q].contentType = <<"text", "application/", "grpc">>
        /\ route[q] = "grpc"
        /\ served[q] = [grpc |-> 1, other |-> 0]

(***************************************************************************)
(* C26.  For one external request, on either path, ValidateAll of the      *)
(* request message is called at most once over all the hops the request    *)
(* causes, and exactly once when the message has it and the call has gone  *)
(* through the server chain; a message without it is never validated.  It  *)
(* is called in the server chain only: the hop that took the gateway       *)
(* branch runs no validation stage, its client side has the client span    *)
(* and nothing else.                                                       *)
(***************************************************************************)
\* Calls of ValidateAll over every hop of external request p.
ValidationsOf(p) ==
    calls[p].validate + calls[Loop(p)].validate + calls[Loop(Loop(p))].validate

\* The server chain has returned on some hop of external request p.
ReachedServer(p) == ChainReturned(p) \/ ChainReturned(Loop(p))

C26_ValidatedOnce ==
    /\ \A p \in Reqs :
          /\ ValidationsOf(p) <= 1
          /\ (ReachedServer(p) /\ HasValidator(req[p].msg)) => ValidationsOf(p) = 1
          /\ ~HasValidator(req[p].msg) => ValidationsOf(p) = 0
          /\ ~ReachedServer(p) => ValidationsOf(p) = 0
    /\ \A q \in InbIds :
          /\ route[q] = "gateway" =>
                /\ calls[q].validate = 0
                /\ Count(log[q], "validation") = 0
                /\ Count(log[q], "ValidateAll") = 0
          /\ calls[q].validate = Count(log[q], "ValidateAll")
          /\ calls[q].validate > 0 => (route[q] = "grpc" /\ ChainRan(q))
          /\ CallWentOut(q) => <<q, "client">> \in DOMAIN spans

\* A native call and a gateway call, both with a message that has
\* ValidateAll, are over: each was validated once, the gateway call on its
\* loopback hop.
C26_Witness ==
    \E p, r \in Reqs :
        /\ pc[p] = "done" /\ route[p] = "grpc"
        /\ HasValidator(req[p].msg)
        /\ calls[p].validate = 1
        /\ GatewayCallDone(r)
        /\ HasValidator(req[r].msg)
        /\ calls[r].validate = 0
        /\ calls[Loop(r)].validate = 1
        /\ ValidationsOf(r) = 1

====
